---- MODULE Spec2Model ----
(***************************************************************************)
(* pyart.graph.radardisplay_airborne: the RadarDisplay_Airborne display    *)
(* object.  State: the display instance's attributes, the source radar     *)
(* object, and the observable outcome of the last operation (exception,    *)
(* return value, routines invoked, data handed to the plotting library).   *)
(***************************************************************************)
EXTENDS Integers, Sequences, FiniteSets, TLC

VARIABLES radar, self, last

vars == <<radar, self, last>>

-----------------------------------------------------------------------------
(* Bounds of the model *)

\* rays per sweep of the modelled radar volume
RaysPerSweep == 2
\* range gates per ray
NGates == 2
\* cap on the number of plots one display accumulates
MaxPlots == 2

\* sweeps of the modelled radar volume
NSweeps == 2
NRays == NSweeps * RaysPerSweep

Rays == 1 .. NRays
Gates == 1 .. NGates

-----------------------------------------------------------------------------
(* Values *)

None == "None"
NoError == [type |-> "", msg |-> ""]
Error(t, m) == [type |-> t, msg |-> m]

\* a keyword dictionary with no entries
EmptyKw == [k \in {} |-> TRUE]

\* d.get(key, default)
Opt(kw, key, default) == IF key \in DOMAIN kw THEN kw[key] ELSE default

\* dictionary union, right operand wins
Merge(a, b) ==
  [k \in (DOMAIN a) \cup (DOMAIN b) |-> IF k \in DOMAIN b THEN b[k] ELSE a[k]]

IsPrefix(s, t) == Len(s) <= Len(t) /\ SubSeq(t, 1, Len(s)) = s

-----------------------------------------------------------------------------
(* The source radar object *)

ScanTypes == {"ppi", "rhi", "vpt", "sector"}
PlatformTypes == {"aircraft_belly", "aircraft_tail", "fixed"}
FieldNames == {"DBZ", "VEL"}

\* per-ray angle arrays, in degrees; each attribute gets its own offset so
\* that no two attributes carry the same array
Angle(i, k) == 90 * ((i + k) % 4)
RayArray(k) == [i \in Rays |-> Angle(i, k)]

\* data cells: kind "num" | "nan" | "inf" | "ninf", value, mask bit
Cell(k, v, m) == [k |-> k, v |-> v, m |-> m]
CellPool ==
  << Cell("num", -3, FALSE), Cell("num", 0, FALSE), Cell("nan", 0, FALSE),
     Cell("num", 2, FALSE), Cell("num", 5, FALSE), Cell("inf", 0, FALSE),
     Cell("num", 8, FALSE), Cell("num", 2, TRUE),  Cell("ninf", 0, FALSE) >>

FieldData(off) ==
  [i \in Rays |-> [j \in Gates |->
      CellPool[(((i - 1) * NGates + (j - 1) + off) % Len(CellPool)) + 1]]]

RadarObject(scan, platform, p) ==
  [ scan_type   |-> scan,
    metadata    |-> [platform_type |-> platform],
    range       |-> [j \in Gates |-> 1000 * j],
    azimuth     |-> RayArray(p),
    elevation   |-> RayArray(p + 1),
    rotation    |-> RayArray(p + 2),
    roll        |-> RayArray(p + 3),
    drift       |-> [i \in Rays |-> 90 * ((i + p) % 2)],
    tilt        |-> [i \in Rays |-> 90 * ((i + p + 1) % 3)],
    pitch       |-> [i \in Rays |-> 180 * ((i + p) % 2)],
    heading     |-> [i \in Rays |-> 45 + i],
    altitude    |-> [i \in Rays |-> 3000 + i],
    fixed_angle |-> [s \in 1 .. NSweeps |-> 10 * s + p],
    latitude    |-> [i \in Rays |-> 40 + i],
    longitude   |-> [i \in Rays |-> 5 + i],
    sweep_start |-> [s \in 1 .. NSweeps |-> (s - 1) * RaysPerSweep],
    sweep_end   |-> [s \in 1 .. NSweeps |-> s * RaysPerSweep - 1],
    fields      |-> [f \in FieldNames |->
                       IF f = "DBZ"
                       THEN [data |-> FieldData(0), valid_min |-> 0, valid_max |-> 8]
                       ELSE [data |-> FieldData(4), valid_min |-> -3, valid_max |-> 5]] ]

-----------------------------------------------------------------------------
(* Array helpers (numpy) *)

\* np.meshgrid(xs, ys): two grids with one row per element of ys and one
\* column per element of xs
meshgrid(xs, ys) ==
  << [i \in 1 .. Len(ys) |-> [j \in 1 .. Len(xs) |-> xs[j]]],
     [i \in 1 .. Len(ys) |-> [j \in 1 .. Len(xs) |-> ys[i]]] >>

\* grid / 1000.0; the modelled ranges are whole kilometres, so the quotient
\* is exact
GridDiv1000(g) == [i \in DOMAIN g |-> [j \in DOMAIN g[i] |-> g[i][j] \div 1000]]

\* grid + scalar
GridAdd(g, d) == [i \in DOMAIN g |-> [j \in DOMAIN g[i] |-> g[i][j] + d]]

\* sine and cosine of an angle in degrees, exact on multiples of 90
Sin(a) ==
  LET d == a % 360 IN CASE d = 90 -> 1 [] d = 270 -> -1 [] OTHER -> 0

Cos(a) ==
  LET d == a % 360 IN CASE d = 0 -> 1 [] d = 180 -> -1 [] OTHER -> 0

-----------------------------------------------------------------------------
(* Coordinate models (pyart.graph.common, pyart.graph.coord_transform) *)

\* belly-mounted model for one gate: polar to Cartesian from range (km),
\* azimuth and elevation (degrees); component k of (x, y, z) in meters
cart(rng, az, ele, k) ==
  LET r == rng * 1000
  IN CASE k = 1 -> r * Cos(ele) * Sin(az)
       [] k = 2 -> r * Cos(ele) * Cos(az)
       [] OTHER -> r * Sin(ele)

\* track-relative model for one gate: composition of rotation, roll, drift,
\* tilt and pitch; range in km, angles in degrees, component k of (x, y, z)
\* in meters
cart_track_relative(rng, rot, roll, drift, tilt, pitch, k) ==
  LET r == rng * 1000
      rr == rot + roll
  IN CASE k = 1 -> r * (Cos(rr) * Sin(drift) * Cos(tilt) * Sin(pitch)
                        + Cos(drift) * Sin(rr) * Cos(tilt)
                        - Sin(drift) * Cos(pitch) * Sin(tilt))
       [] k = 2 -> r * (0 - Cos(rr) * Cos(drift) * Cos(tilt) * Sin(pitch)
                        + Sin(drift) * Sin(rr) * Cos(tilt)
                        + Cos(drift) * Cos(pitch) * Sin(tilt))
       [] OTHER -> r * Cos(pitch) * Cos(tilt) * Cos(rr)

\* the models applied to grids, element by element
radar_coords_to_cart(rng, az, ele) ==
  LET at(k) == [i \in DOMAIN rng |-> [j \in DOMAIN rng[i] |->
                  cart(rng[i][j], az[i][j], ele[i][j], k)]]
  IN [x |-> at(1), y |-> at(2), z |-> at(3)]

radar_coords_to_cart_track_relative(rng, rot, roll, drift, tilt, pitch) ==
  LET at(k) == [i \in DOMAIN rng |-> [j \in DOMAIN rng[i] |->
                  cart_track_relative(rng[i][j], rot[i][j], roll[i][j],
                                      drift[i][j], tilt[i][j], pitch[i][j], k)]]
  IN [x |-> at(1), y |-> at(2), z |-> at(3)]

-----------------------------------------------------------------------------
(* The display instance *)

\* an instance as object.__new__ leaves it: no attribute set.  `has` holds
\* the groups of attributes assigned so far: "attitude" (lines 97-104),
\* "base" (the base display state), "xyz" and "loc" (lines 107-134)
NewInstance ==
  [ has         |-> {},
    fixed_angle |-> 0,
    rotation    |-> <<>>, roll  |-> <<>>, drift    |-> <<>>, tilt |-> <<>>,
    heading     |-> <<>>, pitch |-> <<>>, altitude |-> <<>>,
    scan_type   |-> "",
    ranges      |-> <<>>, azimuths |-> <<>>, elevations |-> <<>>,
    shift       |-> <<0, 0>>,
    origin      |-> "",
    starts      |-> <<>>, ends |-> <<>>,
    plots       |-> <<>>, plot_vars |-> <<>>, cbs |-> <<>>,
    x           |-> <<>>, y |-> <<>>, z |-> <<>>,
    loc         |-> <<0, 0>> ]

Has(s, g) == g \in s.has

AttributeError(name) == Error("AttributeError", name)

\* an outcome of a method: the instance afterwards, the exception raised
\* (NoError when it returns), and what it handed to other routines
Outcome(s, err) ==
  [ self |-> s, err |-> err, calls |-> <<>>,
    mesh |-> [called |-> FALSE, x |-> <<>>, z |-> <<>>, data |-> <<>>,
              vmin |-> 0, vmax |-> 0],
    xform |-> [routine |-> "", args |-> <<>>],
    label |-> "" ]

-----------------------------------------------------------------------------
(* RadarDisplay_Airborne._calculateLocalization *)

\* faulty variant: every aircraft platform takes the belly-mounted model
SelectModelAnyAircraft(platform_type) ==
  IF platform_type \in {"aircraft_belly", "aircraft_tail"}
  THEN "belly" ELSE "track"

\* line 111: the coordinate model chosen for a platform type
SelectModel(platform_type) ==
  IF platform_type = "aircraft_belly" THEN "belly" ELSE "track"

\* lines 112-115 and 119-125: the transform called and its arguments
TransformCall(s, model) ==
  IF model = "belly"
  THEN [ routine |-> "radar_coords_to_cart",
         args |-> << GridDiv1000(meshgrid(s.ranges, s.azimuths)[1]),
                     meshgrid(s.ranges, s.azimuths)[2],
                     meshgrid(s.ranges, s.elevations)[2] >> ]
  ELSE [ routine |-> "radar_coords_to_cart_track_relative",
         args |-> << GridDiv1000(meshgrid(s.ranges, s.pitch)[1]),
                     meshgrid(s.ranges, s.rotation)[2],
                     meshgrid(s.ranges, s.roll)[2],
                     meshgrid(s.ranges, s.drift)[2],
                     meshgrid(s.ranges, s.tilt)[2],
                     meshgrid(s.ranges, s.pitch)[2] >> ]

Transform(call) ==
  IF call.routine = "radar_coords_to_cart"
  THEN radar_coords_to_cart(call.args[1], call.args[2], call.args[3])
  ELSE radar_coords_to_cart_track_relative(
         call.args[1], call.args[2], call.args[3], call.args[4],
         call.args[5], call.args[6])

\* faulty variant: the shift is taken as kilometres and converted to meters
ApplyShiftKm(c, shift) ==
  [ x |-> GridAdd(c.x, 1000 * shift[1]), y |-> GridAdd(c.y, 1000 * shift[2]),
    z |-> c.z ]

\* lines 116-117 and 126-127: the shift added to the transform's x and y
ApplyShift(c, shift) ==
  [ x |-> GridAdd(c.x, shift[1]), y |-> GridAdd(c.y, shift[2]), z |-> c.z ]

\* lines 129-134: the middle latitude and longitude
MiddleLoc(r) ==
  << r.latitude[(Len(r.latitude) \div 2) + 1],
     r.longitude[(Len(r.longitude) \div 2) + 1] >>

\* lines 107-134
calculateLocalization(s, r) ==
  LET model == SelectModel(r.metadata.platform_type)
      call  == TransformCall(s, model)
      c     == ApplyShift(Transform(call), s.shift)
  IN IF ~Has(s, "base")
     THEN Outcome(s, AttributeError("ranges"))
     ELSE IF model = "track" /\ ~Has(s, "attitude")
     THEN Outcome(s, AttributeError("rotation"))
     ELSE [ Outcome([s EXCEPT !.x = c.x, !.y = c.y, !.z = c.z,
                              !.loc = MiddleLoc(r),
                              !.has = @ \cup {"xyz", "loc"}],
                    NoError)
            EXCEPT !.xform = call ]

-----------------------------------------------------------------------------
(* Construction *)

\* lines 97-104: the attitude attributes read from the radar object
CaptureAttitude(s, r) ==
  [ s EXCEPT !.fixed_angle = r.fixed_angle[1],
             !.rotation = r.rotation, !.roll = r.roll, !.drift = r.drift,
             !.tilt = r.tilt, !.heading = r.heading, !.pitch = r.pitch,
             !.altitude = r.altitude,
             !.has = @ \cup {"attitude"} ]

\* the base class initializer RadarDisplay.__init__(radar, shift): the base
\* display state, then the localization
RadarDisplay_init(s, r, shift) ==
  calculateLocalization(
    [ s EXCEPT !.scan_type = r.scan_type,
               !.ranges = r.range,
               !.azimuths = r.azimuth,
               !.elevations = r.elevation,
               !.shift = shift,
               !.origin = IF shift = <<0, 0>> THEN "Radar" ELSE "Origin",
               !.starts = r.sweep_start,
               !.ends = r.sweep_end,
               !.plots = <<>>, !.plot_vars = <<>>, !.cbs = <<>>,
               !.has = @ \cup {"base"} ],
    r)

\* line 105: super(RadarDisplay, self).__init__(radar, shift) starts the
\* method lookup after RadarDisplay, so RadarDisplay.__init__ is not run;
\* the lookup ends at object.__init__, which rejects the two arguments
SuperOfRadarDisplay_init(s, r, shift) ==
  Outcome(s, Error("TypeError", "object.__init__() takes exactly one argument"))

\* lines 95-105
Airborne_init(r, shift) ==
  SuperOfRadarDisplay_init(CaptureAttitude(NewInstance, r), r, shift)

-----------------------------------------------------------------------------
(* Rendering *)

\* the keyword parameters of plot_sweep_grid, lines 172-177
GridParams ==
  { "mask_tuple", "vmin", "vmax", "cmap", "mask_outside", "title",
    "title_flag", "axislabels", "axislabels_flag", "colorbar_flag",
    "colorbar_label", "colorbar_orient", "edges", "filter_transitions",
    "ax", "fig" }

\* calls into the plotting library that may raise
FailPoints == {"pcolormesh", "_set_title", "_label_axes_ppi", "plot_colorbar"}
LibraryError(what) == Error("LibraryError", what)

\* common.parse_vmin_vmax: the limits given, or the field's defaults
parse_vmin_vmax(r, field, kw) ==
  << Opt(kw, "vmin", r.fields[field].valid_min),
     Opt(kw, "vmax", r.fields[field].valid_max) >>

\* the zero-based ray indices of a sweep, as one-based rows
SweepRows(s, sweep) == (s.starts[sweep + 1] + 1) .. (s.ends[sweep + 1] + 1)

Slice(g, s, sweep) ==
  LET first == s.starts[sweep + 1] + 1
      n == Cardinality(SweepRows(s, sweep))
  IN [i \in 1 .. n |-> g[first + i - 1]]

\* RadarDisplay._get_data: the field's data for the rays of the sweep
get_data(s, r, field, sweep) == Slice(r.fields[field].data, s, sweep)

\* component k of the coordinates of gate j of ray i under the platform's
\* model
GateCoords(s, r, i, j, k) ==
  IF r.metadata.platform_type = "aircraft_belly"
  THEN cart(s.ranges[j] \div 1000, s.azimuths[i], s.elevations[i], k)
  ELSE cart_track_relative(s.ranges[j] \div 1000, s.rotation[i], s.roll[i],
                           s.drift[i], s.tilt[i], s.pitch[i], k)

\* RadarDisplay._get_x_z: x and z of the sweep's rays, derived per call from
\* the sweep and the shift in force
get_x_z(s, r, sweep) ==
  LET first == s.starts[sweep + 1] + 1
      n == Cardinality(SweepRows(s, sweep))
  IN [ x |-> [i \in 1 .. n |-> [j \in 1 .. Len(s.ranges) |->
                 GateCoords(s, r, first + i - 1, j, 1) + s.shift[1]]],
       z |-> [i \in 1 .. n |-> [j \in 1 .. Len(s.ranges) |->
                 GateCoords(s, r, first + i - 1, j, 3)]] ]

\* line 252: np.ma.masked_invalid
masked_invalid(data) ==
  [i \in DOMAIN data |-> [j \in DOMAIN data[i] |->
      [data[i][j] EXCEPT !.m = @ \/ data[i][j].k # "num"]]]

\* the comparisons of masked_outside on one cell's filled value
Below(c, v) == c.k = "ninf" \/ (c.k = "num" /\ c.v < v)
Above(c, v) == c.k = "inf" \/ c.m \/ (c.k = "num" /\ c.v > v)

\* line 253: np.ma.masked_outside(data, v1, v2); numpy takes the two
\* boundaries in either order
masked_outside(data, v1, v2) ==
  LET lo == IF v2 < v1 THEN v2 ELSE v1
      hi == IF v2 < v1 THEN v1 ELSE v2
  IN [i \in DOMAIN data |-> [j \in DOMAIN data[i] |->
        [data[i][j] EXCEPT
           !.m = @ \/ Below(data[i][j], lo) \/ Above(data[i][j], hi)]]]

\* faulty variant: the invalid values are not masked first
MaskOutsideLimitsOnly(data, mask_outside, vmin, vmax) ==
  IF mask_outside THEN masked_outside(data, vmin, vmax) ELSE data

\* lines 250-253
MaskOutsideLimits(data, mask_outside, vmin, vmax) ==
  IF mask_outside
  THEN masked_outside(masked_invalid(data), vmin, vmax)
  ELSE data

\* faulty variant: the coordinates are always those of the first sweep
GridInputsFirstSweep(s, r, field, sweep) ==
  [data |-> get_data(s, r, field, sweep), xz |-> get_x_z(s, r, 0)]

\* lines 246-248: the data and the coordinates fetched for the mesh
GridInputs(s, r, field, sweep) ==
  [data |-> get_data(s, r, field, sweep), xz |-> get_x_z(s, r, sweep)]

\* the handle pcolormesh returns
PlotHandle(s, field) == [id |-> Len(s.plots) + 1, field |-> field]

\* faulty variant: a field already plotted is not recorded again
RecordPlotOnce(s, pm, field) ==
  [s EXCEPT !.plots = Append(@, pm),
            !.plot_vars = IF \E i \in 1 .. Len(@) : @[i] = field
                          THEN @ ELSE Append(@, field)]

\* faulty variant: the lists keep the latest plot only
RecordPlotLatest(s, pm, field) ==
  [s EXCEPT !.plots = <<pm>>, !.plot_vars = <<field>>]

\* lines 267-269
RecordPlot(s, pm, field) ==
  [s EXCEPT !.plots = Append(@, pm), !.plot_vars = Append(@, field)]

\* RadarDisplay.plot_colorbar: creates the colorbar and appends it
plot_colorbar(s, pm) == [s EXCEPT !.cbs = Append(@, [mappable |-> pm])]

\* faulty variant: the colorbar is tied to the title toggle as well
ColorbarIfTitled(kw) ==
  Opt(kw, "colorbar_flag", TRUE) /\ Opt(kw, "title_flag", TRUE)

\* lines 271-275
ColorbarWanted(kw) == Opt(kw, "colorbar_flag", TRUE)

\* lines 172-275
plot_sweep_grid(s, r, field, sweep, kw, fail) ==
  LET lim  == parse_vmin_vmax(r, field, kw)
      in   == GridInputs(s, r, field, sweep)
      data == MaskOutsideLimits(in.data, Opt(kw, "mask_outside", TRUE),
                                lim[1], lim[2])
      pm   == PlotHandle(s, field)
      mesh == [called |-> TRUE, x |-> in.xz.x, z |-> in.xz.z, data |-> data,
               vmin |-> lim[1], vmax |-> lim[2]]
      s1   == RecordPlot(s, pm, field)
      drawn(t, e) == [Outcome(t, e) EXCEPT !.mesh = mesh]
  IN IF (DOMAIN kw) \ GridParams # {}
     THEN Outcome(s, Error("TypeError", "unexpected keyword argument"))
     ELSE IF ~Has(s, "base")
     THEN Outcome(s, AttributeError("_radar"))
     ELSE IF fail = "pcolormesh"
     THEN drawn(s, LibraryError(fail))
     ELSE IF Opt(kw, "title_flag", TRUE) /\ fail = "_set_title"
     THEN drawn(s, LibraryError(fail))
     ELSE IF Opt(kw, "axislabels_flag", TRUE) /\ fail = "_label_axes_ppi"
     THEN drawn(s, LibraryError(fail))
     ELSE IF ~ColorbarWanted(kw)
     THEN drawn(s1, NoError)
     ELSE IF fail = "plot_colorbar"
     THEN drawn(s1, LibraryError(fail))
     ELSE drawn(plot_colorbar(s1, pm), NoError)

\* RadarDisplay.plot_ppi: the base class's PPI renderer, with the same
\* side effects on the display's lists
plot_ppi(s, r, field, sweep, kw, fail) ==
  LET pm == PlotHandle(s, field)
      s1 == [s EXCEPT !.plots = Append(@, pm), !.plot_vars = Append(@, field)]
  IN IF (DOMAIN kw) \ GridParams # {}
     THEN Outcome(s, Error("TypeError", "unexpected keyword argument"))
     ELSE IF fail \in FailPoints \ {"plot_colorbar"}
     THEN Outcome(s, LibraryError(fail))
     ELSE IF ~Opt(kw, "colorbar_flag", TRUE)
     THEN Outcome(s1, NoError)
     ELSE IF fail = "plot_colorbar"
     THEN Outcome(s1, LibraryError(fail))
     ELSE Outcome(plot_colorbar(s1, pm), NoError)

\* faulty variant: an unknown scan type falls through to the grid renderer
DispatchUnknownAsGrid(scan_type) ==
  IF scan_type = "ppi" THEN "plot_ppi" ELSE "plot_sweep_grid"

\* faulty variant: vpt scans take the PPI renderer
DispatchVptAsPpi(scan_type) ==
  IF scan_type \in {"ppi", "vpt"} THEN "plot_ppi"
  ELSE IF scan_type = "rhi" THEN "plot_sweep_grid"
  ELSE ""

\* lines 162-169: the routine plot calls for a scan type, "" for none
Dispatch(scan_type) ==
  IF scan_type = "ppi" THEN "plot_ppi"
  ELSE IF scan_type = "rhi" THEN "plot_sweep_grid"
  ELSE IF scan_type = "vpt" THEN "plot_sweep_grid"
  ELSE ""

\* 'unknown scan_type % s' % (scan_type): the space flag does not change
\* the conversion of a string
FormatUnknown(scan_type) == "unknown scan_type " \o scan_type

\* lines 140-170
plot(s, r, field, sweep, kw, fail) ==
  LET routine == Dispatch(s.scan_type)
      call == [routine |-> routine, field |-> field, sweep |-> sweep,
               kwargs |-> kw]
      o == IF routine = "plot_ppi"
           THEN plot_ppi(s, r, field, sweep, kw, fail)
           ELSE plot_sweep_grid(s, r, field, sweep, kw, fail)
  IN IF ~Has(s, "base")
     THEN Outcome(s, AttributeError("scan_type"))
     ELSE IF routine = ""
     THEN Outcome(s, Error("ValueError", FormatUnknown(s.scan_type)))
     ELSE [o EXCEPT !.calls = <<call>>]

\* lines 277-290: the axis-label helpers
label_xaxis_x(s) ==
  IF ~Has(s, "base") THEN Outcome(s, AttributeError("origin"))
  ELSE [Outcome(s, NoError) EXCEPT
          !.label = "Horizontal distance from " \o s.origin \o " (km)"]

label_yaxis_y(s) ==
  IF ~Has(s, "base") THEN Outcome(s, AttributeError("origin"))
  ELSE [Outcome(s, NoError) EXCEPT
          !.label = "Horizontal distance from " \o s.origin \o " (km)"]

label_yaxis_z(s) == [Outcome(s, NoError) EXCEPT !.label = "Altitude (km)"]

-----------------------------------------------------------------------------
(* Inputs *)

Shifts == {<<0, 0>>, <<3, -7>>}
Sweeps == 0 .. (NSweeps - 1)
NoFail == {"none"}

\* keyword options given to plot and plot_sweep_grid; an option left out
\* takes the default of lines 172-177
Off(keys) == [k \in keys |-> FALSE]

\* the toggles
FlagKws ==
  { EmptyKw,
    Off({"title_flag"}),
    Off({"axislabels_flag"}),
    Off({"colorbar_flag"}),
    [k \in {"bogus"} |-> TRUE] }

\* the colour limits and the masking toggle
LimitKws ==
  { EmptyKw,
    [k \in {"vmin", "vmax"} |-> IF k = "vmin" THEN 0 ELSE 5],
    [k \in {"vmin", "vmax"} |-> IF k = "vmin" THEN 5 ELSE 0],
    [k \in {"vmin"} |-> 2],
    Off({"mask_outside"}),
    Merge(Off({"mask_outside"}), [k \in {"vmax"} |-> 2]) }

\* radars of every scan type and platform type
Radars ==
  { RadarObject(scan, platform, p) :
      scan \in ScanTypes, platform \in PlatformTypes, p \in 0 .. 1 }

\* a grid-rendered and a PPI-rendered radar
RadarsForLists ==
  { RadarObject(scan, "aircraft_tail", 0) : scan \in {"rhi", "ppi"} }

\* options given through the dispatcher
DispatchKws == {EmptyKw, Off({"title_flag"}), [k \in {"bogus"} |-> TRUE]}

\* one radar per scan type
RadarsByScan == { RadarObject(scan, "aircraft_tail", 0) : scan \in ScanTypes }

\* grid-rendered radars of both coordinate models
RadarsForGrid ==
  { RadarObject("rhi", platform, 0) :
      platform \in {"aircraft_belly", "aircraft_tail"} }

-----------------------------------------------------------------------------
(* The state machine *)

\* what the caller of the last operation observed
Observed(op, field, sweep, kw, o) ==
  [ op |-> op, field |-> field, sweep |-> sweep, kw |-> kw,
    err |-> o.err,
    ret |-> IF o.err = NoError THEN None ELSE "",
    calls |-> o.calls, mesh |-> o.mesh, xform |-> o.xform, label |-> o.label ]

InitWith(radars) ==
  /\ radar \in radars
  /\ self = NewInstance
  /\ last = Observed("new", "", 0, EmptyKw, Outcome(NewInstance, NoError))

\* RadarDisplay_Airborne(radar, shift): a new instance is initialized
Construct ==
  \E shift \in Shifts :
    LET o == Airborne_init(radar, shift)
    IN /\ self' = o.self
       /\ last' = Observed("__init__", "", 0, EmptyKw, o)
       /\ UNCHANGED radar

\* the base initializer applied to the instance
BaseConstruct(shifts) ==
  \E shift \in shifts :
    /\ Has(self, "attitude")
    /\ \E o \in {RadarDisplay_init(self, radar, shift)} :
       /\ self' = o.self
       /\ last' = Observed("RadarDisplay.__init__", "", 0, EmptyKw, o)
       /\ UNCHANGED radar

CalculateLocalization ==
  LET o == calculateLocalization(self, radar)
  IN /\ self' = o.self
     /\ last' = Observed("_calculateLocalization", "", 0, EmptyKw, o)
     /\ UNCHANGED radar

\* the caller assigns the display's shift attribute
SetShift ==
  \E shift \in Shifts :
    /\ Has(self, "base")
    /\ self' = [self EXCEPT !.shift = shift]
    /\ last' = Observed("shift", "", 0, EmptyKw, Outcome(self, NoError))
    /\ UNCHANGED radar

Plot(sweeps, kws, fails) ==
  \E field \in FieldNames, sweep \in sweeps, kw \in kws, fail \in fails :
    /\ Len(self.plots) < MaxPlots
    /\ \E o \in {plot(self, radar, field, sweep, kw, fail)} :
       /\ self' = o.self
       /\ last' = Observed("plot", field, sweep, kw, o)
       /\ UNCHANGED radar

PlotSweepGrid(sweeps, kws, fails) ==
  \E field \in FieldNames, sweep \in sweeps, kw \in kws, fail \in fails :
    /\ Len(self.plots) < MaxPlots
    /\ \E o \in {plot_sweep_grid(self, radar, field, sweep, kw, fail)} :
       /\ self' = o.self
       /\ last' = Observed("plot_sweep_grid", field, sweep, kw, o)
       /\ UNCHANGED radar

LabelXaxisX ==
  LET o == label_xaxis_x(self)
  IN /\ self' = o.self
     /\ last' = Observed("label_xaxis_x", "", 0, EmptyKw, o)
     /\ UNCHANGED radar

LabelYaxisY ==
  LET o == label_yaxis_y(self)
  IN /\ self' = o.self
     /\ last' = Observed("label_yaxis_y", "", 0, EmptyKw, o)
     /\ UNCHANGED radar

LabelYaxisZ ==
  LET o == label_yaxis_z(self)
  IN /\ self' = o.self
     /\ last' = Observed("label_yaxis_z", "", 0, EmptyKw, o)
     /\ UNCHANGED radar

\* The grid renderer and the display's lists: every toggle, every failure
\* point, on a grid-rendered and a PPI-rendered radar.
Init == InitWith(RadarsForLists)

Next ==
  \/ Construct
  \/ BaseConstruct(Shifts)
  \/ Plot({0}, FlagKws, FailPoints \cup NoFail)
  \/ PlotSweepGrid({0}, FlagKws, FailPoints \cup NoFail)
  \/ LabelXaxisX
  \/ LabelYaxisY
  \/ LabelYaxisZ

Spec == Init /\ [][Next]_vars

\* The dispatcher on radars of every scan type.
InitDispatch == InitWith(RadarsByScan)

NextDispatch ==
  \/ Construct
  \/ BaseConstruct(Shifts)
  \/ Plot(Sweeps, DispatchKws, {"none", "pcolormesh"})
  \/ PlotSweepGrid({0}, {EmptyKw}, NoFail)

SpecDispatch == InitDispatch /\ [][NextDispatch]_vars

\* The grid renderer's mesh inputs: colour limits, masking, sweeps, and a
\* shift that the caller changes between calls.
InitMesh == InitWith(RadarsForGrid)

NextMesh ==
  \/ Construct
  \/ BaseConstruct(Shifts)
  \/ SetShift
  \/ Plot(Sweeps, LimitKws, NoFail)
  \/ PlotSweepGrid(Sweeps, LimitKws, NoFail)

SpecMesh == InitMesh /\ [][NextMesh]_vars

\* The localization on radars of every platform type.
InitLoc == InitWith(Radars)

NextLoc ==
  \/ Construct
  \/ BaseConstruct(Shifts)
  \/ SetShift
  \/ CalculateLocalization

SpecLoc == InitLoc /\ [][NextLoc]_vars

-----------------------------------------------------------------------------
(* Properties *)

KnownScanTypes == {"ppi", "rhi", "vpt"}

Constructors == {"__init__", "RadarDisplay.__init__"}

\* the last operation was a plot_sweep_grid call, direct or through plot,
\* that ran its body on an initialized display
GridCall ==
  /\ Has(self, "base")
  /\ \/ last.op = "plot_sweep_grid"
     \/ last.op = "plot" /\ last.calls # <<>>
                         /\ last.calls[1].routine = "plot_sweep_grid"

\* the last operation computed the localization
LocalizationDone ==
  /\ last.op \in {"_calculateLocalization", "RadarDisplay.__init__"}
  /\ last.err = NoError

\* C1: on a display whose scan_type is none of 'ppi', 'rhi', 'vpt', plot
\* raises a ValueError whose message names the scan_type, invokes no
\* rendering routine and leaves plots, plot_vars and cbs unchanged.
C1_UnknownScanTypeRaises ==
  [][ (last'.op = "plot" /\ Has(self, "base")
         /\ self.scan_type \notin KnownScanTypes)
      => /\ last'.err.type = "ValueError"
         /\ last'.err.msg = "unknown scan_type " \o self.scan_type
         /\ last'.ret # None
         /\ last'.calls = <<>>
         /\ ~last'.mesh.called
         /\ self'.plots = self.plots
         /\ self'.plot_vars = self.plot_vars
         /\ self'.cbs = self.cbs ]_vars

\* a plot call on a display of unknown scan type that already holds a plot
C1_Witness ==
  /\ last.op = "plot"
  /\ Has(self, "base")
  /\ self.scan_type = "sector"
  /\ last.err.type = "ValueError"
  /\ Len(self.plots) = 1
  /\ Len(self.cbs) = 1

GridCallCompleted(l) ==
  /\ l.err = NoError
  /\ \/ l.op = "plot_sweep_grid"
     \/ l.op = "plot" /\ l.calls # <<>>
                      /\ l.calls[1].routine = "plot_sweep_grid"

\* C3: a plot_sweep_grid call that completes appends exactly one plot handle
\* to plots and the field name to plot_vars, appends a colorbar to cbs if
\* and only if colorbar_flag is true, and returns no value, whatever
\* title_flag and axislabels_flag are.
C3_GridCallAppends ==
  [][ GridCallCompleted(last')
      => /\ Len(self'.plots) = Len(self.plots) + 1
         /\ IsPrefix(self.plots, self'.plots)
         /\ self'.plot_vars = Append(self.plot_vars, last'.field)
         /\ IF Opt(last'.kw, "colorbar_flag", TRUE)
            THEN /\ Len(self'.cbs) = Len(self.cbs) + 1
                 /\ IsPrefix(self.cbs, self'.cbs)
                 /\ self'.cbs[Len(self'.cbs)].mappable
                      = self'.plots[Len(self'.plots)]
            ELSE self'.cbs = self.cbs
         /\ last'.ret = None ]_vars

\* a completed plot_sweep_grid call without colorbar and without title,
\* after an earlier one with colorbar
C3_Witness ==
  /\ last.op = "plot_sweep_grid"
  /\ last.err = NoError
  /\ last.kw = Off({"colorbar_flag"})
  /\ Len(self.plots) = 2
  /\ Len(self.cbs) = 1

\* C4: in every reachable state, also after calls that fail part-way,
\* plots and plot_vars have the same length and plot_vars[i] is the field
\* of the call that produced plots[i].
C4_PlotVarsMatchPlots ==
  /\ Len(self.plots) = Len(self.plot_vars)
  /\ \A i \in 1 .. Len(self.plots) : self.plot_vars[i] = self.plots[i].field

\* two plots of different fields, the second from a call whose colorbar
\* creation failed
C4_Witness ==
  /\ Len(self.plots) = 2
  /\ self.plots[1].field # self.plots[2].field
  /\ last.err = LibraryError("plot_colorbar")
  /\ Len(self.cbs) = 1

\* C5: plots, plot_vars and cbs only grow: across every step that is not a
\* construction each list's earlier contents are a prefix of its later
\* contents, so a list is empty again only on a freshly constructed display.
C5_ListsGrowMonotonically ==
  [][ \/ last'.op \in Constructors
      \/ /\ IsPrefix(self.plots, self'.plots)
         /\ IsPrefix(self.plot_vars, self'.plot_vars)
         /\ IsPrefix(self.cbs, self'.cbs) ]_vars

\* a rendering call that extended lists already holding an entry
C5_Witness ==
  /\ last.op \in {"plot", "plot_sweep_grid"}
  /\ last.err = NoError
  /\ Len(self.plots) = 2
  /\ Len(self.cbs) = 2

\* the limits and the data of the last grid call
RawData == get_data(self, radar, last.field, last.sweep)
Invalid(c) == c.k # "num"

\* the data handed to the mesh is the getter's data with the cells masked
\* that MaskedCell selects, values unchanged
MeshDataIs(MaskedCell(_)) ==
  /\ DOMAIN last.mesh.data = DOMAIN RawData
  /\ \A i \in DOMAIN RawData :
       /\ DOMAIN last.mesh.data[i] = DOMAIN RawData[i]
       /\ \A j \in DOMAIN RawData[i] :
            /\ last.mesh.data[i][j].k = RawData[i][j].k
            /\ last.mesh.data[i][j].v = RawData[i][j].v
            /\ last.mesh.data[i][j].m
                 = (RawData[i][j].m \/ MaskedCell(RawData[i][j]))

\* C6 as stated: with mask_outside=True every value that is invalid or
\* outside the closed interval [vmin, vmax] is masked in the data handed to
\* the mesh and every valid value inside it stays unmasked and unchanged;
\* with mask_outside=False the data is handed over as the getter returned
\* it.
C6_MaskedOutsideVminVmax ==
  (GridCall /\ last.mesh.called)
  => IF Opt(last.kw, "mask_outside", TRUE)
     THEN MeshDataIs(LAMBDA c : Invalid(c) \/ c.v < last.mesh.vmin
                                           \/ c.v > last.mesh.vmax)
     ELSE last.mesh.data = RawData

\* C6, amended: with mask_outside=True every value that is invalid or
\* outside the closed interval between the smaller and the larger of vmin
\* and vmax is masked, and every valid value inside that interval (bounds
\* included) stays unmasked and unchanged; with mask_outside=False the data
\* is handed over as the getter returned it.
C6_MaskedOutsideEitherOrder ==
  LET lo == IF last.mesh.vmin <= last.mesh.vmax
            THEN last.mesh.vmin ELSE last.mesh.vmax
      hi == IF last.mesh.vmin <= last.mesh.vmax
            THEN last.mesh.vmax ELSE last.mesh.vmin
  IN (GridCall /\ last.mesh.called)
     => IF Opt(last.kw, "mask_outside", TRUE)
        THEN MeshDataIs(LAMBDA c : Invalid(c) \/ c.v < lo \/ c.v > hi)
        ELSE last.mesh.data = RawData

\* a masking grid call with vmin above vmax that leaves a value between
\* them unmasked and masks an invalid one
C6_Witness ==
  /\ GridCall
  /\ last.mesh.called
  /\ Opt(last.kw, "mask_outside", TRUE)
  /\ last.mesh.vmin > last.mesh.vmax
  /\ \E i \in DOMAIN last.mesh.data : \E j \in DOMAIN last.mesh.data[i] :
       LET c == last.mesh.data[i][j]
       IN ~c.m /\ c.v >= last.mesh.vmax /\ c.v <= last.mesh.vmin
  /\ \E i \in DOMAIN last.mesh.data : \E j \in DOMAIN last.mesh.data[i] :
       last.mesh.data[i][j].k = "nan" /\ last.mesh.data[i][j].m

\* the localization of the display as it is, but with no shift
ZeroShift == calculateLocalization([self EXCEPT !.shift = <<0, 0>>], radar).self

C8_ConstructedDisplayHoldsState ==
  last.op # "new"
  => /\ Has(self, "attitude")
     /\ self.fixed_angle = radar.fixed_angle[1]
     /\ self.rotation = radar.rotation /\ self.roll = radar.roll
     /\ self.drift = radar.drift /\ self.tilt = radar.tilt
     /\ self.pitch = radar.pitch /\ self.heading = radar.heading
     /\ self.altitude = radar.altitude
     /\ Has(self, "loc")
     /\ self.loc = << radar.latitude[(NRays \div 2) + 1],
                      radar.longitude[(NRays \div 2) + 1] >>
     /\ Has(self, "base")

\* the grid of a per-ray array: one row per ray, one column per gate
RayGrid(a) == [i \in Rays |-> [j \in Gates |-> a[i]]]
RangeKmGrid == [i \in Rays |-> [j \in Gates |-> radar.range[j] \div 1000]]

C10_ModelByPlatformType ==
  LocalizationDone
  => /\ IF radar.metadata.platform_type = "aircraft_belly"
        THEN /\ last.xform.routine = "radar_coords_to_cart"
             /\ last.xform.args
                  = << RangeKmGrid, RayGrid(radar.azimuth),
                       RayGrid(radar.elevation) >>
        ELSE /\ last.xform.routine = "radar_coords_to_cart_track_relative"
             /\ last.xform.args
                  = << RangeKmGrid, RayGrid(radar.rotation),
                       RayGrid(radar.roll), RayGrid(radar.drift),
                       RayGrid(radar.tilt), RayGrid(radar.pitch) >>
     /\ self.x = GridAdd(Transform(last.xform).x, self.shift[1])
     /\ self.y = GridAdd(Transform(last.xform).y, self.shift[2])
     /\ self.z = Transform(last.xform).z
     /\ \A g \in {self.x, self.y, self.z} :
          /\ DOMAIN g = Rays
          /\ \A i \in Rays : DOMAIN g[i] = Gates

\* a localization on a platform that is neither belly-mounted nor an
\* aircraft
C10_Witness ==
  /\ LocalizationDone
  /\ radar.metadata.platform_type = "fixed"
  /\ last.xform.routine = "radar_coords_to_cart_track_relative"
  /\ Has(self, "xyz")

====
